---- MODULE Spec2Model ----
(***************************************************************************)
(* The racer's vehicle core, src/car.js: Car.update(dt) with its effect    *)
(* pipeline (drift, turbo, off-road), the player's movement block, the     *)
(* lap/position tracking of Car.handleLapAndPosition, and the AI steering  *)
(* decision Car.updateCarPosition.                                         *)
(*                                                                         *)
(* JavaScript numbers are modelled in fixed point, so that every product   *)
(* and quotient the code forms is an integer:                              *)
(*   time      in ticks of 1/40 second (dt, driftAmount,            *)
(*             slipstream, slipstreamTime)                                 *)
(*   lengths   in 1/4 world unit (x, z, widths, track geometry)     *)
(*   speed     in world units per second, as in the source                 *)
(*   turboAmount in 1/1600 of a gauge unit                            *)
(*   maxSpeedMultiplier in hundredths, accelerationMultiplier in tenths    *)
(* Quotients that are not whole (steering, centrifugal pull, drift slide,  *)
(* the curve bonus) are rounded down to the length unit.                   *)
(***************************************************************************)
EXTENDS Integers, Sequences, FiniteSets

\* ---------------------------------------------------------------- scales
\* n seconds, n world units, n gauge units in the model's units.
Sec(n) == 40 * n
Dist(n) == 4 * n
Fuel(n) == 1600 * n

\* ------------------------------------------------- class constants (8-14)
BASE_MAX_SPEED == 26000
MAX_TURBO_SPEED == 28000
ACCELERATION_RATE == 6800
BRAKING_RATE == -16000
DECELERATION_RATE == -8000
\* BASE_CENTRIFUGAL = 0.3, in tenths
BASE_CENTRIFUGAL == 3
BASE_TURN_SPEED == 3000

\* The speed gate of drift, turbo and slipstream (lines 298, 311, 327, 471).
SPEED_GATE == 8000

STATE_RACING == "racing"
STATE_RACEOVER == "raceover"

\* ---------------------------------------------------------------- bounds
\* Cars in the race: index 0 is the player, the others are AI cars.
NumCars == 2
\* Ticks of the game loop a behaviour runs for.
MaxTicks == 3
\* Input-handler calls (key presses and releases) in a behaviour.
MaxPresses == 1
\* dt values the game loop passes, in ticks of 1/40 second.
DtSet == {1, 2}
\* mathRand() draws, in halves: 0 and 0.5.
RandSet == {0, 1}

Cars == 0 .. (NumCars - 1)

Max(a, b) == IF a >= b THEN a ELSE b
Min(a, b) == IF a <= b THEN a ELSE b
Abs(a) == IF a < 0 THEN -a ELSE a

\* ------------------------------------------------------------------ track
\* The track collaborator (track.findSegment, track.getLength,
\* Track.segmentLength, the segments' geometry): one closed circuit.
segmentLength == Dist(300)
SegmentCount == 40
TrackLength == SegmentCount * segmentLength

\* track.findSegment(z): the index of the segment that contains z.
FindSegment(z) == (z \div segmentLength) % SegmentCount

\* segment.p1.world.z: where the segment starts.
SegmentStartZ(n) == n * segmentLength

\* segment.curve: a straight from the line, then right-hand bends and
\* left-hand bends.
SegmentCurve(n) == IF n < 8 THEN 0 ELSE IF n < 20 THEN 2 ELSE -2

\* segment.p1.world.x and segment.p2.world.x: the road's edges.
TrackLeft(n) == -(Dist(1500))
TrackRight(n) == Dist(1500)

\* segment.kerbWidth
KerbWidth(n) == Dist(150)

\* segment.sprites: roadside objects, each {x, s, source: {cx, cw}}.
SegmentSprites(n) ==
    IF n % 5 = 0 /\ n > 0
    THEN << [x |-> -(Dist(2200)), s |-> 2,
             source |-> [cx |-> 0, cw |-> Dist(150)]] >>
    ELSE << >>

\* utilIncrease(start, increment, max): start + increment wrapped into [0, max).
UtilIncrease(start, increment, max) == (start + increment) % max

\* -------------------------------------------------------------------- car
\* getPositionDisplay(): the position with its English suffix.
GetPositionDisplay(i) ==
    LET j == i % 10
        k == i % 100
    IN  IF j = 1 /\ k # 11 THEN << i, "st" >>
        ELSE IF j = 2 /\ k # 12 THEN << i, "nd" >>
        ELSE IF j = 3 /\ k # 13 THEN << i, "rd" >>
        ELSE << i, "th" >>

\* new Car(): the fields the update reads or writes. finishPosition 0 is
\* written << 0, "" >>; bounce is kept times 20 * maxSpeed (the constructor's
\* 1.5 is 30 * maxSpeed), so that bounce * mathRand() * speedPercent is whole.
NewCar(index) ==
    [ index |-> index, width |-> Dist(500), x |-> 0, z |-> 0,
      lap |-> 0, lapStarted |-> FALSE, position |-> 0,
      finishPosition |-> << 0, "" >>,
      speed |-> 0,
      accelerate |-> FALSE, brake |-> FALSE,
      turnLeft |-> FALSE, turnRight |-> FALSE,
      turbo |-> FALSE, turboRequest |-> FALSE,
      drift |-> FALSE, driftRequest |-> FALSE,
      turboAmount |-> Fuel(100), driftAmount |-> 0, driftDirection |-> 0,
      slipstream |-> 0, slipstreamTime |-> 0,
      centrifugal |-> BASE_CENTRIFUGAL,
      maxSpeed |-> BASE_MAX_SPEED, maxTurboSpeed |-> MAX_TURBO_SPEED,
      accel |-> ACCELERATION_RATE, breaking |-> BRAKING_RATE,
      decel |-> DECELERATION_RATE, turnSpeed |-> BASE_TURN_SPEED,
      bounce |-> 30 * BASE_MAX_SPEED,
      takeCornerOnInside |-> FALSE ]

\* doAccelerate(velocity, acceleration, dt)
DoAccelerate(velocity, acceleration, dt) ==
    velocity + (acceleration * dt) \div Sec(1)

\* limit(value, min, max)
Limit(value, min, max) == Max(min, Min(value, max))

\* overlap(x1, w1, x2, w2, percent), percent in tenths
Overlap(x1, w1, x2, w2, percent) ==
    LET min1 == x1 - ((percent - 10) * w1) \div 20
        max1 == x1 + (w1 * percent) \div 10
        min2 == x2 - ((percent - 10) * w2) \div 20
        max2 == x2 + (w2 * percent) \div 10
    IN  ~((max1 < min2) \/ (min1 > max2))

\* ------------------------------------------------- update: effect pipeline
\* distanceToLeft and distanceToRight of car c on segment seg.
DistanceToLeft(c, seg) == c.x - TrackLeft(seg)
DistanceToRight(c, seg) == TrackRight(seg) - (c.x + c.width)

\* extraSpeed, in thousandths: 10 for an AI car and for the player where no
\* curve bonus applies, else the curve bonus floored at 1.
ExtraSpeed(c, seg) ==
    LET trackWidth == TrackRight(seg) - TrackLeft(seg)
        curve == SegmentCurve(seg)
        bonus(d) == 1000 + ((trackWidth - c.width - d) * Abs(curve) * 1000)
                               \div (trackWidth * 80)
    IN  IF c.index # 0 THEN 10000
        ELSE IF curve < 0 /\ DistanceToLeft(c, seg) > 0
             THEN Max(1000, bonus(DistanceToLeft(c, seg)))
        ELSE IF curve > 0 /\ DistanceToRight(c, seg) > 0
             THEN Max(1000, bonus(DistanceToRight(c, seg)))
        ELSE Max(1000, 10000)

\* The drift request: a drift starts above the speed gate when the car is
\* neither drifting nor accelerating; at or below the gate it is refused.
DriftRequestStep(c) ==
    IF c.driftRequest
    THEN IF c.speed > SPEED_GATE
         THEN IF ~c.drift /\ ~c.accelerate
              THEN [c EXCEPT !.driftAmount = Sec(3) \div 2, !.drift = TRUE]
              ELSE c
         ELSE [c EXCEPT !.drift = FALSE]
    ELSE [c EXCEPT !.drift = FALSE]

\* A drift decay that ignores the speed gate.
DriftDecayUngated(c, dt) ==
    IF c.driftAmount > 0
    THEN [c EXCEPT !.driftAmount = @ - dt,
                   !.driftDirection =
                       IF @ = 0
                       THEN IF c.turnRight THEN 1
                            ELSE IF c.turnLeft THEN -1 ELSE 0
                       ELSE @]
    ELSE [c EXCEPT !.drift = FALSE, !.driftAmount = 0, !.driftDirection = 0]

\* The drift's decay above the speed gate, its end otherwise.
DriftDecayStep(c, dt) ==
    IF c.driftAmount > 0 /\ c.speed > SPEED_GATE
    THEN [c EXCEPT !.driftAmount = @ - dt,
                   !.driftDirection =
                       IF @ = 0
                       THEN IF c.turnRight THEN 1
                            ELSE IF c.turnLeft THEN -1 ELSE 0
                       ELSE @]
    ELSE [c EXCEPT !.drift = FALSE, !.driftAmount = 0, !.driftDirection = 0]

\* Whether the turbo logic grants turbo to c in this tick.
TurboGranted(c) ==
    IF c.turboRequest
    THEN c.turboAmount > 0 /\ c.speed > SPEED_GATE /\ c.accelerate
    ELSE FALSE

\* The turbo flag and the fuel it burns: dt * 2.45 a tick.
TurboStep(c, dt) ==
    IF TurboGranted(c)
    THEN [c EXCEPT !.turbo = TRUE,
                   !.turboAmount = @ - (dt * Fuel(245)) \div (100 * Sec(1))]
    ELSE [c EXCEPT !.turbo = FALSE]

\* Off the road: "none", on the kerb ("kerb") or beyond it ("extreme"). The
\* kerb is the player's segment's, pseg.
Offroad(c, seg, pseg) ==
    LET margin == c.width \div 10
        dl == DistanceToLeft(c, seg)
        dr == DistanceToRight(c, seg)
    IN  IF dl < -margin \/ dr < -margin
        THEN IF dl + margin < -KerbWidth(pseg) \/ dr + margin < -KerbWidth(pseg)
             THEN "extreme"
             ELSE "kerb"
        ELSE "none"

\* maxSpeedMultiplier, in hundredths, of the car c that entered the tick.
MaxSpeedMultiplier(c, seg, pseg) ==
    LET d == DriftRequestStep(c)
        o == Offroad(c, seg, pseg)
    IN  80
        + (IF c.slipstreamTime > 0 THEN 40 ELSE 0)
        - (IF c.driftRequest /\ ~(c.speed > SPEED_GATE) THEN 50 ELSE 0)
        - (IF d.driftAmount > 0 /\ d.speed > SPEED_GATE THEN 4 ELSE 0)
        - (IF o = "extreme" THEN 60 ELSE IF o = "kerb" THEN 10 ELSE 0)

\* accelerationMultiplier, in tenths.
AccelerationMultiplier(c, seg, pseg) ==
    (IF TurboGranted(c) THEN 12 ELSE 10)
    - (IF Offroad(c, seg, pseg) = "extreme" THEN 2 ELSE 0)

\* The local maxSpeed: the turbo cap while turbo is granted.
LocalMaxSpeed(c) == IF TurboGranted(c) THEN c.maxTurboSpeed ELSE c.maxSpeed

\* bounce: 3.4, 6 on the kerb, 9.5 beyond it, times mathRand() and
\* speedPercent; rand in halves.
Bounce(c, seg, pseg, rand) ==
    LET o == Offroad(c, seg, pseg)
        severity == IF o = "extreme" THEN 95 ELSE IF o = "kerb" THEN 60 ELSE 34
    IN  severity * rand * c.speed


\* --------------------------------------------- update: the player's block
\* The lateral step: centrifugal pull, steering (times 5 while a drift
\* direction is locked) and the drift slide. c carries this tick's drift
\* state and the speed the tick was entered with.
SteerStep(c, dt, seg) ==
    LET dx == (dt * c.turnSpeed * c.speed)
                  \div ((Sec(1) \div Dist(1)) * c.maxSpeed)
        pull == (dx * c.speed * SegmentCurve(seg) * c.centrifugal)
                    \div (10 * c.maxSpeed)
        dxSteer == IF c.driftDirection # 0 THEN dx * 5 ELSE dx
        steer == IF c.turnLeft THEN -dxSteer
                 ELSE IF c.turnRight THEN dxSteer ELSE 0
        dDrift == (c.driftDirection * c.speed * 11) \div 5000
    IN  [c EXCEPT !.x = @ - pull + steer + dDrift]

\* dt * speed * extraSpeed, in length units; extraSpeed in thousandths.
Advance(c, dt, extraSpeed) ==
    (dt * c.speed * extraSpeed) \div (1000 * (Sec(1) \div Dist(1)))

\* A z update that does not wrap.
ZStepUnwrapped(c, dt, extraSpeed) ==
    [c EXCEPT !.z = @ + Advance(c, dt, extraSpeed)]

\* The longitudinal step.
ZStep(c, dt, extraSpeed) ==
    [c EXCEPT !.z = UtilIncrease(@, Advance(c, dt, extraSpeed), TrackLength)]

\* A speed application that accelerates whatever the cap.
SpeedStepUncapped(c, maxSpeed, maxSpeedMultiplier, accelerationMultiplier, dt) ==
    IF c.accelerate
    THEN [c EXCEPT !.speed =
            DoAccelerate(@, (c.accel * accelerationMultiplier) \div 10, dt)]
    ELSE IF c.brake
    THEN [c EXCEPT !.speed = DoAccelerate(@, c.breaking, dt)]
    ELSE [c EXCEPT !.speed = DoAccelerate(@, c.decel, dt)]

\* Speed application: accelerate below the cap maxSpeed * maxSpeedMultiplier,
\* decelerate at or above it and come back up to the cap on an undershoot;
\* brake; coast.
SpeedStep(c, maxSpeed, maxSpeedMultiplier, accelerationMultiplier, dt) ==
    LET cap == (maxSpeed * maxSpeedMultiplier) \div 100
    IN  IF c.accelerate
        THEN IF c.speed < cap
             THEN [c EXCEPT !.speed =
                     DoAccelerate(@, (c.accel * accelerationMultiplier) \div 10, dt)]
             ELSE LET v == DoAccelerate(c.speed, c.decel, dt)
                  IN  [c EXCEPT !.speed = IF v < cap THEN cap ELSE v]
        ELSE IF c.brake
        THEN [c EXCEPT !.speed = DoAccelerate(@, c.breaking, dt)]
        ELSE [c EXCEPT !.speed = DoAccelerate(@, c.decel, dt)]

\* Whether c overlaps a sprite of segment pseg.
HitsSprite(c, pseg) ==
    \E n \in 1 .. Len(SegmentSprites(pseg)) :
        LET sprite == SegmentSprites(pseg)[n]
            spriteW == sprite.s * sprite.source.cw
            spriteX == sprite.x + sprite.source.cx * sprite.s
        IN  Overlap(c.x, c.width, spriteX, spriteW, 10)

\* The crash: slipstream lost, a fifth of the base max speed, back to the
\* start of playerSegment, the segment found at the start of the tick.
CrashStep(c, pseg) ==
    IF HitsSprite(c, pseg)
    THEN [c EXCEPT !.slipstream = 0, !.slipstreamTime = 0,
                   !.speed = c.maxSpeed \div 5,
                   !.z = UtilIncrease(SegmentStartZ(pseg), 0, TrackLength)]
    ELSE c

\* isBehind: some other car is within (0, 1800) ahead by the code's
\* distance, and within 0.4 of its width sideways.
IsBehind(c, all) ==
    \E k \in DOMAIN all :
        /\ all[k].index # 0
        /\ LET d == all[k].z - c.z
               distance == IF c.z > TrackLength - Dist(1200)
                           THEN d - TrackLength ELSE d
           IN  /\ distance > 0
               /\ distance < Dist(1800)
               /\ 10 * Abs(c.x - all[k].x) < 4 * all[k].width

\* A slipstream step whose boost does not decay in the tick of the grant.
SlipstreamStepGrantKept(c, isBehind, dt) ==
    IF isBehind /\ c.speed > SPEED_GATE
    THEN LET acc == c.slipstream + dt
         IN  IF 100 * acc > Sec(14)
             THEN [c EXCEPT !.slipstream = acc, !.slipstreamTime = Sec(2)]
             ELSE [c EXCEPT !.slipstream = acc,
                            !.slipstreamTime = IF @ > 0 THEN @ - dt ELSE @]
    ELSE [c EXCEPT !.slipstream = 0,
                   !.slipstreamTime = IF @ > 0 THEN @ - dt ELSE @]

\* The slipstream accumulator, the grant past 0.14 s and the boost's decay.
SlipstreamStep(c, isBehind, dt) ==
    LET a == IF isBehind /\ c.speed > SPEED_GATE
             THEN LET acc == c.slipstream + dt
                  IN  [c EXCEPT !.slipstream = acc,
                                !.slipstreamTime =
                                    IF 100 * acc > Sec(14) THEN Sec(2) ELSE @]
             ELSE [c EXCEPT !.slipstream = 0]
    IN  IF a.slipstreamTime > 0
        THEN [a EXCEPT !.slipstreamTime = @ - dt]
        ELSE a

\* The player's block up to the collision check: steering, z and speed. c
\* carries the tick's drift and turbo state, e is the car as it entered the
\* tick.
MoveStep(c, e, all, dt) ==
    LET seg == FindSegment(e.z)
        pseg == FindSegment(all[0].z)
        c1 == SteerStep(c, dt, seg)
        c2 == ZStep(c1, dt, ExtraSpeed(e, seg))
    IN  SpeedStep(c2, LocalMaxSpeed(e), MaxSpeedMultiplier(e, seg, pseg),
                  AccelerationMultiplier(e, seg, pseg), dt)

\* The block entered by the player while the race is not over.
PlayerStep(c, e, all, dt) ==
    LET c4 == CrashStep(MoveStep(c, e, all, dt), FindSegment(all[0].z))
    IN  SlipstreamStep(c4, IsBehind(c4, all), dt)

\* ------------------------------------------------- update: the common part
\* The global track limits, measured from the car's centre.
TrackLimitStep(c, seg) ==
    LET trackLeftLimit == TrackLeft(seg) - (12 * c.width) \div 10
        trackRightLimit == TrackRight(seg) + (12 * c.width) \div 10
        a == IF c.x + c.width \div 2 < trackLeftLimit
             THEN [c EXCEPT !.x = trackLeftLimit - c.width \div 2]
             ELSE c
    IN  IF a.x + a.width \div 2 > trackRightLimit
        THEN [a EXCEPT !.x = trackRightLimit - a.width \div 2]
        ELSE a

\* The final clamp of speed to [0, maxSpeed], maxSpeed the tick's local cap.
SpeedClampStep(c, maxSpeed) == [c EXCEPT !.speed = Limit(@, 0, maxSpeed)]


\* --------------------------------------------------- handleLapAndPosition
\* Lap logic: a lap is counted below 2 segment lengths while lapStarted is
\* clear; otherwise lapStarted clears above 1.2 segment lengths.
LapStep(c) ==
    IF c.z < segmentLength * 2 /\ ~c.lapStarted
    THEN [c EXCEPT !.lap = @ + 1, !.lapStarted = TRUE]
    ELSE IF 10 * c.z > segmentLength * 12
         THEN [c EXCEPT !.lapStarted = FALSE]
         ELSE c

\* The position against all other cars: 1 plus the cars a lap ahead, or on
\* the same lap with a greater z.
RankStep(c, all) ==
    [c EXCEPT !.position =
        1 + Cardinality({ k \in DOMAIN all :
                /\ all[k].index # c.index
                /\ \/ all[k].lap > c.lap
                   \/ (all[k].lap = c.lap /\ all[k].z > c.z) })]

\* A race-over check that does not look at the race's state.
RaceOverDueAgain(c, raceState) ==
    c.index = 0 /\ c.lap = 4

\* The race-over check: the player on lap 4 while the race is not over.
RaceOverDue(c, raceState) ==
    c.index = 0 /\ c.lap = 4 /\ raceState # STATE_RACEOVER

\* What the race-over branch does to the player.
RaceOverStep(c) ==
    [c EXCEPT !.finishPosition = GetPositionDisplay(c.position),
              !.turbo = FALSE, !.slipstream = 0, !.slipstreamTime = 0]

HandleLapAndPosition(c, all, raceState) ==
    LET c1 == RankStep(LapStep(c), all)
    IN  IF RaceOverDue(c1, raceState) THEN RaceOverStep(c1) ELSE c1

\* ----------------------------------------------------------------- update
\* An update whose random draw also shakes the car sideways.
UpdateBodyShaken(e, all, raceState, dt, rand) ==
    LET seg == FindSegment(e.z)
        pseg == FindSegment(all[0].z)
        c1 == TurboStep(DriftDecayStep(DriftRequestStep(e), dt), dt)
        c2 == [c1 EXCEPT !.bounce = Bounce(e, seg, pseg, rand), !.x = @ + rand]
        c3 == IF e.index = 0 /\ raceState # STATE_RACEOVER
              THEN PlayerStep(c2, e, all, dt)
              ELSE c2
    IN  SpeedClampStep(TrackLimitStep(c3, seg), LocalMaxSpeed(e))

\* The car before handleLapAndPosition is called. e is the car entering the
\* tick, all is the cars array, rand the tick's mathRand() draw.
UpdateBody(e, all, raceState, dt, rand) ==
    LET seg == FindSegment(e.z)
        pseg == FindSegment(all[0].z)
        c1 == TurboStep(DriftDecayStep(DriftRequestStep(e), dt), dt)
        c2 == [c1 EXCEPT !.bounce = Bounce(e, seg, pseg, rand)]
        c3 == IF e.index = 0 /\ raceState # STATE_RACEOVER
              THEN PlayerStep(c2, e, all, dt)
              ELSE c2
    IN  SpeedClampStep(TrackLimitStep(c3, seg), LocalMaxSpeed(e))

\* An update that also ranks every other car afresh.
UpdateCarsRanked(all, i, raceState, dt, rand) ==
    LET c == HandleLapAndPosition(UpdateBody(all[i], all, raceState, dt, rand),
                                  all, raceState)
        new == [all EXCEPT ![i] = c]
    IN  [k \in DOMAIN all |-> IF k = i THEN c ELSE RankStep(new[k], new)]

\* cars[i].update(dt): the cars array after the call, which assigns to
\* fields of this alone.
UpdateCars(all, i, raceState, dt, rand) ==
    [all EXCEPT ![i] =
        HandleLapAndPosition(UpdateBody(all[i], all, raceState, dt, rand),
                             all, raceState)]


\* ------------------------------------------------------ updateCarPosition
\* A steer value that ignores the distance.
AvoidanceSteerFlat(dir, i) == << dir * 3, 1 >>

\* dir * 3 / i, a steer value being a fraction << numerator, denominator >>.
AvoidanceSteer(dir, i) == << dir * 3, i >>

\* The scan of one segment's cars from the j-th on: -1 or 1, the side to
\* swerve to for the first other car that overlaps with buffer 1.2, or 0.
RECURSIVE ScanCars(_, _, _, _)
ScanCars(me, seg, list, j) ==
    IF j > Len(list) THEN 0
    ELSE LET otherCar == list[j]
             otherCarLeft == otherCar.x
             otherCarRight == otherCar.x + otherCar.width
             spaceOnLeft == otherCarLeft - TrackLeft(seg)
             spaceOnRight == TrackRight(seg) - otherCarRight
         IN  IF otherCar.index = me.index
             THEN ScanCars(me, seg, list, j + 1)
             ELSE IF Overlap(me.x, me.width, otherCarLeft, otherCar.width, 12)
             THEN IF spaceOnLeft > spaceOnRight THEN -1 ELSE 1
             ELSE ScanCars(me, seg, list, j + 1)

\* The scan of the segments i, i + 1, ... 7 ahead of carSegment; segCars[n]
\* is segment n's cars list.
RECURSIVE ScanAhead(_, _, _, _)
ScanAhead(me, carSegment, segCars, i) ==
    IF ~(i < 8) THEN [found |-> FALSE, steer |-> << 0, 1 >>]
    ELSE LET seg == (carSegment + i) % SegmentCount
             dir == ScanCars(me, seg, segCars[seg], 1)
         IN  IF dir # 0
             THEN [found |-> TRUE, steer |-> AvoidanceSteer(dir, i)]
             ELSE ScanAhead(me, carSegment, segCars, i + 1)

\* The corner-following steer for a curve i ahead: 1/5 or -1/5 under 5
\* segments, else 2/i or -2/i.
CornerSteer(curve, i) ==
    IF curve > 0
    THEN IF i < 5 THEN << 1, 5 >> ELSE << 2, i >>
    ELSE IF i < 5 THEN << -1, 5 >> ELSE << -2, i >>

\* The scan for the first curved segment i, i + 1, ... 59 ahead; segCurve[n]
\* is segment n's curve.
RECURSIVE ScanCorner(_, _, _)
ScanCorner(carSegment, segCurve, i) ==
    IF ~(i < 60) THEN [found |-> FALSE, steer |-> << 0, 1 >>]
    ELSE LET curve == segCurve[(carSegment + i) % SegmentCount]
         IN  IF curve > 0 \/ curve < 0
             THEN [found |-> TRUE, steer |-> CornerSteer(curve, i)]
             ELSE ScanCorner(carSegment, segCurve, i + 1)

\* updateCarPosition(carSegment, playerSegment, playerWidth) of car me, with
\* the global t that the statements between the two scans assign to: they
\* throw a ReferenceError when no t is defined.
UpdateCarPosition(me, carSegment, playerSegment, playerWidth, segCars, segCurve, t) ==
    LET avoid == ScanAhead(me, carSegment, segCars, 1)
        t2 == [t EXCEPT !.maxSpeed = 35000, !.maxTurboSpeed = 40000]
        corner == ScanCorner(carSegment, segCurve, 1)
    IN  IF avoid.found
        THEN [outcome |-> "return", steer |-> avoid.steer, t |-> t]
        ELSE IF ~t.defined
        THEN [outcome |-> "throw", steer |-> << 0, 1 >>, t |-> t]
        ELSE IF me.takeCornerOnInside /\ corner.found
        THEN [outcome |-> "return", steer |-> corner.steer, t |-> t2]
        ELSE [outcome |-> "return", steer |-> << 0, 1 >>, t |-> t2]


\* ------------------------------------------------------------------ state
VARIABLES
    cars,           \* the cars array: index -> car
    raceState,      \* race.state
    raceOverCalls,  \* calls of race.raceOver() so far
    finishAssigned, \* assignments to the player's finishPosition so far
    next,           \* the car the game loop updates next in this tick
    tickDt,         \* the dt of the tick in progress
    ticks,          \* ticks started
    presses,        \* input-handler calls made
    stayLaps,       \* per car: laps counted since its z was last seen at or
                    \* beyond 2 segment lengths at the end of an update
    last,           \* the last update: the car, its dt and what it met
    steerIn,        \* an updateCarPosition call: the car, its segment, the
                    \* segments' cars lists
    steerOut,       \* what the call did: its outcome and return value
    globalT         \* the global t, if one is defined

vars == << cars, raceState, raceOverCalls, finishAssigned, next, tickDt,
           ticks, presses, stayLaps, last, steerIn, steerOut, globalT >>

raceVars == << cars, raceState, raceOverCalls, finishAssigned, next, tickDt,
               ticks, presses, stayLaps, last >>
steerVars == << steerIn, steerOut, globalT >>

NoUpdate ==
    [ car |-> -1, dt |-> 0, entry |-> NewCar(0), moved |-> NewCar(0),
      crashed |-> FALSE, behind |-> FALSE, granted |-> FALSE,
      maxSpeedMultiplier |-> 0, offroad |-> "none",
      raceWasOver |-> FALSE, raceOverNow |-> FALSE ]

\* ------------------------------------------------------------- scenarios
\* The race as a tick begins. Each start is a state play leads to; the
\* first is the state after construction.
Ranked(all) == [k \in DOMAIN all |-> RankStep(all[k], all)]

\* An AI car parked at z on lap 1 (the AI branch of update moves no car).
AiAt(index, z) ==
    [NewCar(index) EXCEPT !.z = z, !.lap = 1,
                          !.lapStarted = (z < segmentLength * 2)]

\* The cars beyond index 1 stand in the left-hand half of the circuit.
Field(player, ai) ==
    Ranked([k \in Cars |->
        IF k = 0 THEN player
        ELSE IF k = 1 THEN ai
        ELSE AiAt(k, SegmentStartZ(20 + k) + Dist(100))])

\* On the road on lap 1, past the line.
Driving(z, speed) ==
    [NewCar(0) EXCEPT !.z = z, !.speed = speed, !.lap = 1]

Starts ==
    { \* construction: every field as the constructor leaves it
      [k \in Cars |-> NewCar(k)],
      \* full throttle just below the base cap 0.8 * maxSpeed
      Field([Driving(SegmentStartZ(8), 20700) EXCEPT !.accelerate = TRUE],
            AiAt(1, SegmentStartZ(30))),
      \* full throttle at the base cap
      Field([Driving(SegmentStartZ(8), 20800) EXCEPT !.accelerate = TRUE],
            AiAt(1, SegmentStartZ(30))),
      \* the last lap's sprint: turbo and a slipstream boost, before the line
      Field([Driving(TrackLength - Dist(250), 27000) EXCEPT
                 !.lap = 3, !.accelerate = TRUE, !.turboRequest = TRUE,
                 !.turbo = TRUE, !.turboAmount = Fuel(90),
                 !.slipstreamTime = 6],
            AiAt(1, SegmentStartZ(30))),
      \* a drift braked down to below the speed gate
      Field([Driving(SegmentStartZ(12), 7900) EXCEPT
                 !.brake = TRUE, !.turnLeft = TRUE, !.driftRequest = TRUE,
                 !.drift = TRUE, !.driftAmount = Sec(1),
                 !.driftDirection = -1],
            AiAt(1, SegmentStartZ(30))),
      \* a drift at speed
      Field([Driving(SegmentStartZ(12), 15000) EXCEPT
                 !.turnRight = TRUE, !.driftRequest = TRUE,
                 !.drift = TRUE, !.driftAmount = 2,
                 !.driftDirection = 1],
            AiAt(1, SegmentStartZ(30))),
      \* far off the road to the left, beside a roadside object
      Field([Driving(SegmentStartZ(10) + Dist(200), 6000) EXCEPT
                 !.x = -Dist(2000)],
            AiAt(1, SegmentStartZ(30))),
      \* trailing an AI car by 1000 on a curve, 0.1 s of eligibility so far
      Field([Driving(SegmentStartZ(8), 9000) EXCEPT
                 !.x = Dist(50), !.accelerate = TRUE, !.slipstream = 4],
            AiAt(1, SegmentStartZ(8) + Dist(1000))),
      \* standing between 1.2 and 2 segment lengths, its lap just counted
      Field([Driving(Dist(400), 0) EXCEPT !.lapStarted = TRUE],
            AiAt(1, Dist(500))),
      \* 1100 before the line, an AI car set to speed 9000 just past it: 1200
      \* ahead along the track, a lap up
      Field([Driving(TrackLength - Dist(1100), 9000) EXCEPT
                 !.accelerate = TRUE],
            [AiAt(1, Dist(100)) EXCEPT !.speed = 9000, !.lap = 2]),
      \* a drift to the right still decaying, the drift button released and
      \* the wheel turned left since
      Field([Driving(SegmentStartZ(12), 15000) EXCEPT
                 !.turnLeft = TRUE, !.driftAmount = 2, !.driftDirection = 1],
            AiAt(1, SegmentStartZ(30))) }

\* No updateCarPosition call: a lone car on the line.
NoCall ==
    [ me |-> NewCar(1), carSegment |-> 0,
      segCars |-> [n \in 0 .. (SegmentCount - 1) |-> << >>],
      segCurve |-> [n \in 0 .. (SegmentCount - 1) |-> SegmentCurve(n)] ]
NoResult == [outcome |-> "none", steer |-> << 0, 1 >>]
Undefined == [defined |-> FALSE, maxSpeed |-> 0, maxTurboSpeed |-> 0]

Init ==
    /\ steerIn = NoCall
    /\ steerOut = NoResult
    /\ globalT = Undefined
    /\ cars \in Starts
    /\ raceState = STATE_RACING
    /\ raceOverCalls = 0
    /\ finishAssigned = 0
    /\ next = 0
    /\ tickDt = 0
    /\ ticks = 0
    /\ presses = 0
    /\ stayLaps = [k \in Cars |->
                     IF cars[k].lapStarted /\ cars[k].z < segmentLength * 2
                     THEN 1 ELSE 0]
    /\ last = NoUpdate


\* ---------------------------------------------------------------- actions
\* The input handlers, called for the player's car between two ticks. A call
\* that changes nothing is no step.
CanPress == next = 0 /\ ticks < MaxTicks /\ presses < MaxPresses

Pressed(c) ==
    /\ cars' = [cars EXCEPT ![0] = c]
    /\ presses' = presses + 1
    /\ UNCHANGED << raceState, raceOverCalls, finishAssigned, next, tickDt,
                    ticks, stayLaps, last >>
    /\ UNCHANGED steerVars

setTurnLeft(turn) ==
    /\ CanPress /\ cars[0].turnLeft # turn
    /\ Pressed([cars[0] EXCEPT !.turnLeft = turn])

setTurnRight(turn) ==
    /\ CanPress /\ cars[0].turnRight # turn
    /\ Pressed([cars[0] EXCEPT !.turnRight = turn])

setAccelerate(accelerate) ==
    /\ CanPress /\ cars[0].accelerate # accelerate
    /\ Pressed([cars[0] EXCEPT !.accelerate = accelerate])

setBrake(brake) ==
    /\ CanPress /\ cars[0].brake # brake
    /\ Pressed([cars[0] EXCEPT !.brake = brake])

setTurbo(turbo) ==
    /\ CanPress /\ cars[0].turboRequest # turbo
    /\ Pressed([cars[0] EXCEPT !.turboRequest = turbo])

setDrift(drift) ==
    /\ CanPress /\ cars[0].driftRequest # drift
    /\ Pressed([cars[0] EXCEPT !.driftRequest = drift])

\* What z travels in the update of e: the player's advance, nothing for an
\* AI car or once the race is over.
Travel(e, dt) ==
    IF e.index = 0 /\ raceState # STATE_RACEOVER
    THEN Advance(e, dt, ExtraSpeed(e, FindSegment(e.z)))
    ELSE 0

\* What cars[i].update(dt) does to the race, with the draw rand of
\* mathRand(): the car's update, race.raceOver() putting the race into
\* STATE_RACEOVER, and the turn passing to the next car of the game loop.
Tick(i, dt, rand) ==
    /\ LET e == cars[i]
           body == UpdateBody(e, cars, raceState, dt, rand)
           c == UpdateCars(cars, i, raceState, dt, rand)[i]
           due == RaceOverDue(RankStep(LapStep(body), cars), raceState)
           inRace == e.index = 0 /\ raceState # STATE_RACEOVER
           drifted == TurboStep(DriftDecayStep(DriftRequestStep(e), dt), dt)
           moved == IF inRace THEN MoveStep(drifted, e, cars, dt) ELSE drifted
           crashed == inRace /\ HitsSprite(moved, FindSegment(cars[0].z))
           window == segmentLength * 2
       IN  /\ cars' = UpdateCars(cars, i, raceState, dt, rand)
           /\ raceState' = IF due THEN STATE_RACEOVER ELSE raceState
           /\ raceOverCalls' = raceOverCalls + (IF due THEN 1 ELSE 0)
           /\ finishAssigned' = finishAssigned + (IF due THEN 1 ELSE 0)
           /\ stayLaps' = [stayLaps EXCEPT ![i] =
                 IF c.z < window
                 THEN (IF e.z + Travel(e, dt) < window THEN @ ELSE 0)
                      + (c.lap - e.lap)
                 ELSE 0]
           /\ last' = [ car |-> i, dt |-> dt,
                        entry |-> [e EXCEPT !.bounce = 0],
                        moved |-> [moved EXCEPT !.bounce = 0],
                        crashed |-> crashed,
                        behind |-> inRace /\ IsBehind(CrashStep(moved,
                                       FindSegment(cars[0].z)), cars),
                        granted |-> TurboGranted(e),
                        maxSpeedMultiplier |-> MaxSpeedMultiplier(e,
                                    FindSegment(e.z), FindSegment(cars[0].z)),
                        offroad |-> Offroad(e, FindSegment(e.z),
                                            FindSegment(cars[0].z)),
                        raceWasOver |-> raceState = STATE_RACEOVER,
                        raceOverNow |-> due ]
    /\ next' = (i + 1) % NumCars
    /\ tickDt' = dt

\* cars[i].update(dt): the game loop updates the cars in index order, all
\* with the tick's dt; race.raceOver() puts the race into STATE_RACEOVER.
update(i, dt, rand) ==
    /\ next = i
    /\ IF i = 0 THEN ticks < MaxTicks ELSE dt = tickDt
    /\ Tick(i, dt, rand)
    /\ ticks' = IF i = 0 THEN ticks + 1 ELSE ticks
    /\ UNCHANGED presses
    /\ UNCHANGED steerVars

Next ==
    \/ \E turn \in BOOLEAN : setTurnLeft(turn)
    \/ \E turn \in BOOLEAN : setTurnRight(turn)
    \/ \E accelerate \in BOOLEAN : setAccelerate(accelerate)
    \/ \E brake \in BOOLEAN : setBrake(brake)
    \/ \E turbo \in BOOLEAN : setTurbo(turbo)
    \/ \E drift \in BOOLEAN : setDrift(drift)
    \/ \E i \in Cars, dt \in DtSet, rand \in RandSet : update(i, dt, rand)

Spec == Init /\ [][Next]_vars

\* --------------------------------------------------------- steady driving
\* The game loop left to run with a fixed dt and the buttons held as they
\* are: the loop keeps calling update, car after car, until the race is over.
\* The starts: throttle held from the grid; throttle held 100 short of the
\* line on the last lap; throttle and drift button held 1000 beyond the
\* right-hand edge of the road at speed 1000.
SteadyStarts ==
    { Field([NewCar(0) EXCEPT !.accelerate = TRUE], NewCar(1)),
      Field([Driving(TrackLength - Dist(100), 2000) EXCEPT
                 !.lap = 3, !.accelerate = TRUE],
            AiAt(1, SegmentStartZ(30))),
      Field([Driving(SegmentStartZ(12), 1000) EXCEPT
                 !.x = Dist(1500), !.accelerate = TRUE, !.driftRequest = TRUE],
            AiAt(1, SegmentStartZ(30))) }

InitLive ==
    /\ steerIn = NoCall
    /\ steerOut = NoResult
    /\ globalT = Undefined
    /\ cars \in SteadyStarts
    /\ raceState = STATE_RACING
    /\ raceOverCalls = 0
    /\ finishAssigned = 0
    /\ next = 0
    /\ tickDt \in DtSet
    /\ ticks = 0
    /\ presses = 0
    /\ stayLaps = [k \in Cars |-> 0]
    /\ last = NoUpdate

steadyUpdate(i, rand) ==
    /\ next = i
    /\ raceState # STATE_RACEOVER
    /\ Tick(i, tickDt, rand)
    /\ UNCHANGED << ticks, presses >>
    /\ UNCHANGED steerVars

NextLive == \E i \in Cars, rand \in RandSet : steadyUpdate(i, rand)

\* The game loop goes on: while the race is on, the turn passes from car to
\* car. Every step of NextLive is such a step and every state of a race that
\* is on allows one, so that this is weak fairness of NextLive.
TurnPasses == raceState # STATE_RACEOVER /\ next' = (next + 1) % NumCars

SpecLive == InitLive /\ [][NextLive]_vars /\ WF_next(TurnPasses)

\* ------------------------------------------------- updateCarPosition calls
\* The calls of updateCarPosition that are tried: an AI car of index 1 and
\* width 500 at x = 0 on a track of half-width 1500, so that another car of
\* width 500 overlaps it with buffer 1.2 exactly when its x is in -650 .. 650
\* and has more room on its left exactly when its x is above -250. Up to two
\* entries in the cars lists of the segments 1, 2, 3, 7 and 8 ahead, an entry
\* being another car or the car itself.
SteerXs == { -(Dist(651)), -(Dist(650)), -(Dist(250)), -(Dist(249)),
             Dist(650), Dist(651) }
SteerAheads == {1, 2, 3, 7, 8}
SteerSegments == {0, 36}
Entries == [index : {1, 2}, x : SteerXs, ahead : SteerAheads]
EntryLists == {<< >>} \cup { << a >> : a \in Entries }
                      \cup { << a, b >> : a \in Entries, b \in Entries }

RECURSIVE CarsIn(_, _, _, _)
CarsIn(list, j, carSegment, n) ==
    IF j > Len(list) THEN << >>
    ELSE (IF (carSegment + list[j].ahead) % SegmentCount = n
          THEN << [NewCar(list[j].index) EXCEPT !.x = list[j].x] >>
          ELSE << >>) \o CarsIn(list, j + 1, carSegment, n)

\* The circuit's curves, or a circuit without a curve.
SteerCurves ==
    { [n \in 0 .. (SegmentCount - 1) |-> SegmentCurve(n)],
      [n \in 0 .. (SegmentCount - 1) |-> 0] }

Call(carSegment, inside, list, segCurve) ==
    [ me |-> [NewCar(1) EXCEPT !.takeCornerOnInside = inside],
      carSegment |-> carSegment,
      segCars |-> [n \in 0 .. (SegmentCount - 1) |->
                     CarsIn(list, 1, carSegment, n)],
      segCurve |-> segCurve ]

InitSteer ==
    /\ \E carSegment \in SteerSegments, inside \in BOOLEAN,
          list \in EntryLists, segCurve \in SteerCurves :
          steerIn = Call(carSegment, inside, list, segCurve)
    /\ steerOut = NoResult
    /\ globalT \in { Undefined,
                     [defined |-> TRUE, maxSpeed |-> 0, maxTurboSpeed |-> 0] }
    /\ cars = Field(NewCar(0), NewCar(1))
    /\ raceState = STATE_RACING
    /\ raceOverCalls = 0
    /\ finishAssigned = 0
    /\ next = 0
    /\ tickDt = 0
    /\ ticks = 0
    /\ presses = 0
    /\ stayLaps = [k \in Cars |-> 0]
    /\ last = NoUpdate

\* steerIn.me.updateCarPosition(steerIn.carSegment, playerSegment,
\* playerWidth), once.
updateCarPosition ==
    /\ steerOut.outcome = "none"
    /\ LET r == UpdateCarPosition(steerIn.me, steerIn.carSegment,
                                  FindSegment(cars[0].z), cars[0].width,
                                  steerIn.segCars, steerIn.segCurve,
                                  globalT)
       IN  /\ steerOut' = [outcome |-> r.outcome, steer |-> r.steer]
           /\ globalT' = r.t
    /\ UNCHANGED steerIn
    /\ UNCHANGED raceVars

NextSteer == updateCarPosition

SpecSteer == InitSteer /\ [][NextSteer]_vars


\* ----------------------------------------------------------------- claims
\* The car the last update call updated, and whether one was made.
Updated == last.car # -1
Now == cars[last.car]
PlayerTick == last.car = 0 /\ ~last.raceWasOver

\* C1: after every update(dt), 0 <= speed <= effectiveMaxSpeed, the turbo
\* cap if the car's turbo flag is set at the end of the tick and the base
\* cap otherwise.
C1_SpeedBound ==
    Updated =>
        /\ Now.speed >= 0
        /\ Now.speed <= (IF Now.turbo THEN Now.maxTurboSpeed ELSE Now.maxSpeed)

\* C2: after every tick in which each car was updated once, in index order,
\* the cars' positions are exactly 1..N, each held once.
C2_PositionPermutation ==
    (next = 0 /\ ticks >= 1) =>
        /\ { cars[k].position : k \in Cars } = 1 .. NumCars
        /\ \A j, k \in Cars : cars[j].position = cars[k].position => j = k

\* C3: lap never decreases, and one continuous stay below 2 segment lengths
\* counts one lap, never two or more.
C3_LapOncePerStay ==
    /\ Updated => Now.lap >= last.entry.lap
    /\ \A k \in Cars : stayLaps[k] <= 1

\* C4: once the player's lap has become 4, finishPosition has been assigned
\* exactly once and race.raceOver() called exactly once, whatever updates
\* follow; neither happens earlier or twice.
C4_RaceOverOnce ==
    /\ raceOverCalls <= 1
    /\ finishAssigned = raceOverCalls
    /\ cars[0].lap >= 4 =>
           /\ raceOverCalls = 1
           /\ raceState = STATE_RACEOVER
           /\ cars[0].finishPosition # << 0, "" >>
    /\ cars[0].lap < 4 => raceOverCalls = 0

\* C4's case: the player is updated again after the race is over.
C4_Witness ==
    /\ cars[0].lap >= 4
    /\ last.car = 0
    /\ last.raceWasOver

\* C5: an update entered with speed <= 8000 ends with drift false, whatever
\* driftRequest is; entered by a drifting car, it also ends with driftAmount 0.
C5_DriftGate ==
    (Updated /\ last.entry.speed <= SPEED_GATE) =>
        /\ ~Now.drift
        /\ (last.entry.drift /\ last.entry.driftAmount > 0) =>
               Now.driftAmount = 0

\* C5's case: a drifting car, its drift still requested, enters a tick at or
\* below the speed gate.
C5_Witness ==
    /\ Updated
    /\ last.entry.speed <= SPEED_GATE
    /\ last.entry.drift
    /\ last.entry.driftAmount > 0
    /\ last.entry.driftRequest
    /\ ~Now.drift

\* What a tick of dt burns: dt * 2.45.
Burn(dt) == (dt * Fuel(245)) \div (100 * Sec(1))

\* C6: a tick in which turbo is granted takes dt * 2.45 off turboAmount; a
\* tick in which it is not granted leaves turboAmount as it was, and so does
\* every tick after race over and every tick entered with turboAmount <= 0.
C6_TurboFuel ==
    Updated =>
        /\ last.granted =>
               Now.turboAmount = last.entry.turboAmount - Burn(last.dt)
        /\ ~last.granted => Now.turboAmount = last.entry.turboAmount
        /\ last.entry.turboAmount <= 0 =>
               Now.turboAmount = last.entry.turboAmount
        /\ last.raceWasOver => Now.turboAmount = last.entry.turboAmount

\* The base cap maxSpeed * 0.8 and what one tick of throttle adds.
BaseCap(c) == (c.maxSpeed * 80) \div 100
Gain(c, dt) == (c.accel * dt) \div Sec(1)

\* A tick of the player with the throttle held and no modifier active: no
\* slipstream boost, no drift, no turbo, on the road.
SteadyTick ==
    /\ PlayerTick
    /\ last.entry.accelerate
    /\ last.entry.slipstreamTime <= 0
    /\ ~last.entry.driftRequest
    /\ last.entry.driftAmount <= 0
    /\ ~last.granted
    /\ last.offroad = "none"
    /\ last.maxSpeedMultiplier = 80

\* C7 as claimed: a steady tick entered at or below the base cap ends at or
\* below it.
C7_NeverAboveCap ==
    (SteadyTick /\ last.entry.speed <= BaseCap(last.entry)) =>
        Now.speed <= BaseCap(last.entry)

\* C7 as amended: a steady tick entered below cap + accel * dt ends below
\* cap + accel * dt; entered at or above the cap, it ends exactly at the cap
\* unless the car crashes.
C7_OvershootBounded ==
    (SteadyTick
       /\ last.entry.speed < BaseCap(last.entry) + Gain(last.entry, last.dt)) =>
        /\ Now.speed < BaseCap(last.entry) + Gain(last.entry, last.dt)
        /\ (last.entry.speed >= BaseCap(last.entry) /\ ~last.crashed) =>
               Now.speed = BaseCap(last.entry)

\* C7's case: a steady tick that was entered above the cap, after an
\* overshoot, and came back to it.
C7_Witness ==
    /\ SteadyTick
    /\ last.entry.speed > BaseCap(last.entry)
    /\ last.entry.speed < BaseCap(last.entry) + Gain(last.entry, last.dt)
    /\ Now.speed = BaseCap(last.entry)

\* The crash reset but for z.
CrashReset ==
    /\ Now.speed = Now.maxSpeed \div 5
    /\ Now.slipstream = 0
    /\ Now.slipstreamTime = 0

\* C8: after a crash, speed is maxSpeed / 5, slipstream and slipstreamTime
\* are 0, and z is the start of the segment that contains the z the car had
\* reached. (The code puts the car at the start of playerSegment, the segment
\* found as the tick began, and tests that segment's sprites.)
C8_ResetToReachedSegment ==
    (PlayerTick /\ last.crashed) =>
        /\ CrashReset
        /\ Now.z = SegmentStartZ(FindSegment(last.moved.z))

\* What the slipstream check reads: the speed and z after the speed step
\* and the crash.
CheckedSpeed ==
    IF last.crashed THEN last.entry.maxSpeed \div 5 ELSE last.moved.speed
CheckedZ ==
    IF last.crashed THEN SegmentStartZ(FindSegment(last.entry.z))
    ELSE last.moved.z

\* Some other car is between 0 and 1800 ahead on the same lap of the track
\* and within 0.4 of its width sideways.
Trails ==
    \E k \in Cars \ {0} :
        /\ cars[k].z - CheckedZ > 0
        /\ cars[k].z - CheckedZ < Dist(1800)
        /\ 10 * Abs(last.moved.x - cars[k].x) < 4 * cars[k].width

\* Short of the last 1200 of the track, where the code measures the distance
\* across the line.
ShortOfWrap == CheckedZ <= TrackLength - Dist(1200)

Eligible == PlayerTick /\ Trails /\ CheckedSpeed > SPEED_GATE

\* The accumulated eligibility first exceeds 0.14 s in the last tick.
FirstExceeds ==
    /\ 100 * last.entry.slipstream <= Sec(14)
    /\ 100 * (last.entry.slipstream + last.dt) > Sec(14)

Obstructs(otherCar) ==
    /\ otherCar.index # steerIn.me.index
    /\ Overlap(steerIn.me.x, steerIn.me.width, otherCar.x, otherCar.width, 12)
CarsAhead(i) == steerIn.segCars[(steerIn.carSegment + i) % SegmentCount]
FirstFound(i, j) ==
    /\ j \in 1 .. Len(CarsAhead(i))
    /\ Obstructs(CarsAhead(i)[j])
    /\ \A h \in 1 .. (j - 1) : ~Obstructs(CarsAhead(i)[h])
    /\ \A g \in 1 .. (i - 1) :
           \A h \in 1 .. Len(CarsAhead(g)) : ~Obstructs(CarsAhead(g)[h])

\* -1 with strictly more clearance on the left of otherCar in the segment i
\* ahead, 1 otherwise.
Direction(otherCar, i) ==
    LET seg == (steerIn.carSegment + i) % SegmentCount
    IN  IF otherCar.x - TrackLeft(seg)
             > TrackRight(seg) - (otherCar.x + otherCar.width)
        THEN -1 ELSE 1

Called == steerOut.outcome # "none"

NoObstacle ==
    \A i \in 1 .. 7 : \A j \in 1 .. Len(CarsAhead(i)) :
        ~Obstructs(CarsAhead(i)[j])

\* The curve of the segment i ahead, and whether it is the first curved one
\* within the look-ahead.
CurveAhead(i) == steerIn.segCurve[(steerIn.carSegment + i) % SegmentCount]
FirstCorner(i) ==
    /\ CurveAhead(i) # 0
    /\ \A g \in 1 .. (i - 1) : CurveAhead(g) = 0
NoCorner == \A i \in 1 .. 59 : CurveAhead(i) = 0

\* C11: the call returns the value of the first matching rule: avoidance,
\* corner following when takeCornerOnInside is set, else 0; with no obstacle
\* and no corner to follow it completes and returns 0. (With no global t
\* defined the statements after the avoidance scan throw.)
C11_RulePriority ==
    Called =>
        /\ ~NoObstacle =>
               /\ steerOut.outcome = "return"
               /\ \E i \in 1 .. 7 : \E j \in 1 .. Len(CarsAhead(i)) :
                      /\ FirstFound(i, j)
                      /\ steerOut.steer
                           = << Direction(CarsAhead(i)[j], i) * 3, i >>
        /\ (NoObstacle /\ steerIn.me.takeCornerOnInside /\ ~NoCorner) =>
               /\ steerOut.outcome = "return"
               /\ \E i \in 1 .. 59 :
                      /\ FirstCorner(i)
                      /\ steerOut.steer = CornerSteer(CurveAhead(i), i)
        /\ (NoObstacle /\ (~steerIn.me.takeCornerOnInside \/ NoCorner)) =>
               /\ steerOut.outcome = "return"
               /\ steerOut.steer[1] = 0

\* C12: a call of updateCarPosition changes nothing: not the acting car, not
\* the cars lists, not the track, not any other object. (The statements
\* after the avoidance scan assign to t.maxSpeed and t.maxTurboSpeed.)
C12_Pure ==
    [][updateCarPosition =>
          /\ steerIn' = steerIn
          /\ cars' = cars
          /\ globalT' = globalT]_vars

\* C20: with takeCornerOnInside set and no obstacle, the value returned has
\* the sign of the first curved segment's curve, and a corner 5 or more
\* segments ahead gets no larger a magnitude than the 1/5 of a corner under
\* 5 segments ahead. (2/i is above 1/5 for i in 5..9.)
C20_NearCornerSharper ==
    (Called /\ steerOut.outcome = "return" /\ NoObstacle
            /\ steerIn.me.takeCornerOnInside) =>
        \A i \in 1 .. 59 :
            FirstCorner(i) =>
                /\ steerOut.steer[2] > 0
                /\ (CurveAhead(i) > 0) = (steerOut.steer[1] > 0)
                /\ (CurveAhead(i) < 0) = (steerOut.steer[1] < 0)
                /\ i >= 5 =>
                       Abs(steerOut.steer[1]) * CornerSteer(1, 1)[2]
                           <= CornerSteer(1, 1)[1] * steerOut.steer[2]

\* What the last tick added to the player's z before wrapping.
Travelled ==
    Advance(last.entry, last.dt,
            ExtraSpeed(last.entry, FindSegment(last.entry.z)))
Wrapped == PlayerTick /\ last.entry.z + Travelled >= TrackLength

\* C13: every car's z is in [0, trackLength) after every update, after the
\* longitudinal update as after the crash reposition, so that every
\* findSegment query is for a z in range.
C13_ZInRange ==
    /\ \A k \in Cars : cars[k].z >= 0 /\ cars[k].z < TrackLength
    /\ Updated => (last.moved.z >= 0 /\ last.moved.z < TrackLength)
    /\ (PlayerTick /\ ~last.crashed) =>
           Now.z = (last.entry.z + Travelled) % TrackLength
    /\ (PlayerTick /\ last.crashed) =>
           Now.z = SegmentStartZ(FindSegment(last.entry.z))

\* C13's case: a tick carried the player over the line and its z was
\* wrapped.
C13_Witness ==
    /\ Wrapped
    /\ ~last.crashed
    /\ Now.z < last.entry.z
    /\ Now.z = last.entry.z + Travelled - TrackLength

\* C14: driftAmount >= 0 at the end of every update, the tick in which the
\* drift's remaining amount is smaller than dt included. (The decay takes dt
\* off whatever is left.)
C14_DriftAmountNonNegative ==
    \A k \in Cars : cars[k].driftAmount >= 0

\* C15: an update of one car, lap and position tracking included, leaves
\* every field of every other car as it was; next is the car an update step
\* updates, and the input handlers write to the player's car between ticks.
C15_OnlyOwnFields ==
    [][\A k \in Cars : k # next => cars'[k] = cars[k]]_vars

\* C15's case: the player's update took it past another car, whose position
\* stands as it was, now equal to the player's.
C15_Witness ==
    /\ last.car = 0
    /\ Now.position < last.entry.position
    /\ \E k \in Cars \ {0} : cars[k].position = Now.position

\* C16: a tick whose longitudinal update wraps the player's z past the end
\* of the track counts the lap, by exactly 1, or leaves the car inside the
\* crossing window, below 2 segment lengths, where a later tick can count it
\* before the next wrap. (Past the window nothing counts the crossing: z
\* only comes below 2 segment lengths again by wrapping.)
C16_CrossingCounted ==
    (Wrapped /\ ~last.crashed) =>
        \/ Now.lap = last.entry.lap + 1
        \/ (Now.lap = last.entry.lap /\ Now.z < segmentLength * 2)

\* C17: while the race is not over, the update of any car, the player's or
\* an AI car's, leaves z at z + dt * speed * extraSpeed, wrapped, unless a
\* crash repositions it; so an AI car with speed > 0 moves. (The AI branch
\* of update is empty.)
C17_EveryCarAdvances ==
    (Updated /\ ~last.raceWasOver /\ ~last.crashed) =>
        /\ Now.z = (last.entry.z + Travelled) % TrackLength
        /\ (last.car # 0 /\ last.entry.speed > 0 /\ last.dt > 0) =>
               Now.z # last.entry.z

\* Some other car is between 0 and 1800 ahead along the track, the distance
\* measured across the line, and within 0.4 of its width sideways.
TrailsAcrossLine ==
    \E k \in Cars \ {0} :
        /\ (cars[k].z - CheckedZ) % TrackLength > 0
        /\ (cars[k].z - CheckedZ) % TrackLength < Dist(1800)
        /\ 10 * Abs(last.moved.x - cars[k].x) < 4 * cars[k].width

\* C18: within 1200 of the end of the track, a tick counts the player as
\* behind another car exactly when that car is between 0 and 1800 ahead,
\* measured with wrap-around, and within 0.4 of its width sideways. (The
\* code takes trackLength off a difference that is already negative.)
C18_BehindAcrossLine ==
    (PlayerTick /\ ~ShortOfWrap) => (last.behind <=> TrailsAcrossLine)

\* The drift goes on in the last tick: it was entered with driftAmount left
\* and above the speed gate.
DriftGoesOn == last.entry.driftAmount > 0 /\ last.entry.speed > SPEED_GATE

\* C19: a driftDirection of -1 or 1 is kept through every tick in which the
\* drift goes on, whatever the turn inputs; the tick entered with the drift
\* over, its amount used up or the speed at or below the gate, ends with
\* driftDirection and driftAmount 0. (A drift requested in the tick after
\* the amount is used up starts before the reset and keeps the old value.)
C19_StickyUntilEnd ==
    (Updated /\ last.entry.driftDirection # 0) =>
        /\ DriftGoesOn => Now.driftDirection = last.entry.driftDirection
        /\ ~DriftGoesOn => (Now.driftDirection = 0 /\ Now.driftAmount = 0)

\* The cars with the bounce field left out of account.
LessBounce(all) == [k \in DOMAIN all |-> [all[k] EXCEPT !.bounce = 0]]

\* The race as the last update found it, but for bounce: an update writes
\* to its own car alone.
Before == LessBounce([cars EXCEPT ![last.car] = last.entry])
StateBefore == IF last.raceWasOver THEN STATE_RACEOVER ELSE STATE_RACING

\* C21: the mathRand() draw of a tick shows in the bounce field alone. The
\* last update, made with some draw, left the race where the same update
\* with any draw takes it, from the state it found or from one that differs
\* from it in bounce fields: the same cars but for bounce, the same
\* race-over signal. Two runs that differ in their draws so stay equal but
\* for bounce, tick after tick.
C21_RandOnlyBounce ==
    Updated =>
        \A other \in RandSet :
            /\ LessBounce(UpdateCars(Before, last.car, StateBefore,
                                     last.dt, other))
                   = LessBounce(cars)
            /\ RaceOverDue(RankStep(LapStep(UpdateBody(
                               Before[last.car], Before, StateBefore,
                               last.dt, other)), Before), StateBefore)
                   = last.raceOverNow

\* C21's case: in a second tick or later, a draw above 0 gave the player's
\* car a bounce that the draw 0 would not have.
C21_Witness ==
    /\ last.car = 0
    /\ ticks >= 2
    /\ Now.bounce > 0
    /\ Bounce(last.entry, FindSegment(last.entry.z),
              FindSegment(last.entry.z), 0) = 0

\* C22: an update of the player's car made once the race is over leaves its
\* z, lap, lapStarted, finishPosition, slipstream and slipstreamTime as they
\* were, moves x by the track-limit clamp alone and speed by the final
\* clamp alone.
C22_FrozenAfterRaceOver ==
    (last.car = 0 /\ last.raceWasOver) =>
        LET e == last.entry
            seg == FindSegment(e.z)
        IN  /\ Now.z = e.z
            /\ Now.lap = e.lap
            /\ Now.lapStarted = e.lapStarted
            /\ Now.finishPosition = e.finishPosition
            /\ Now.slipstream = e.slipstream
            /\ Now.slipstreamTime = e.slipstreamTime
            /\ Now.x = TrackLimitStep(e, seg).x
            /\ Now.speed = SpeedClampStep(e, LocalMaxSpeed(e)).speed

\* Steady driving, as far as a state shows it: accelerate is held, and the
\* player's last update hit no sprite and advanced z by less than 2 segment
\* lengths.
Steady ==
    /\ cars[0].accelerate
    /\ PlayerTick => (~last.crashed /\ Travelled < segmentLength * 2)

RaceCompleted == cars[0].lap = 4 /\ raceState = STATE_RACEOVER /\ raceOverCalls > 0

\* C23: as long as update keeps being called with one dt, a player who
\* drives steadily all the way comes to lap 4 and race.raceOver() is called.
C23_RaceCompletes == []Steady => <>RaceCompleted

====
